---- MODULE Spec2Model ----
(***************************************************************************)
(* Model of netlify/functions/state.js: the EV charging queue handler.     *)
(* One JSON document (users, queue, spots, lastReset) lives in a file of a *)
(* GitHub repository; every invocation of exports.handler reads the file   *)
(* with its blob sha, applies one action to the parsed document and PUTs   *)
(* the whole document back together with the sha it read.                  *)
(***************************************************************************)
EXTENDS Integers, Sequences, FiniteSets, TLC

(***************************************************************************)
(* Bounds of the model.                                                    *)
(***************************************************************************)
\* Date.now() takes the values 1..MaxNow.
MaxNow == 2
\* addUser is explored while the document holds fewer than MaxUsers users.
MaxUsers == 2
\* addToQueue is explored while the new position stays <= MaxPos.
MaxPos == 3
\* payload.delta ranges over -MaxDelta..MaxDelta.
MaxDelta == 2
\* payload.userId ranges over 1..MaxUserId (and absent); ids above every
\* Date.now() value belong to no user.
MaxUserId == 3

(***************************************************************************)
(* JavaScript values.  null, undefined and an absent field are all falsy   *)
(* and are written Null; ids are Date.now() values, hence positive.        *)
(***************************************************************************)
Null == 0

\* Array.prototype.findIndex / find on the users: the first user with this
\* id, as a 1-based index, 0 when there is none.
RECURSIVE FindUserFrom(_, _, _)
FindUserFrom(users, id, k) ==
    IF k > Len(users) THEN 0
    ELSE IF users[k].id = id THEN k
    ELSE FindUserFrom(users, id, k + 1)

FindUser(users, id) == FindUserFrom(users, id, 1)

\* String.prototype.trim on a name given as a sequence of characters.
RECURSIVE TrimLeft(_)
TrimLeft(s) == IF s # <<>> /\ Head(s) = " " THEN TrimLeft(Tail(s)) ELSE s

RECURSIVE TrimRight(_)
TrimRight(s) ==
    IF s # <<>> /\ s[Len(s)] = " " THEN TrimRight(SubSeq(s, 1, Len(s) - 1)) ELSE s

trim(s) == TrimRight(TrimLeft(s))

\* String.prototype.toUpperCase on the method names the model sends.
toUpperCase(m) ==
    CASE m = "get" -> "GET"
      [] m = "post" -> "POST"
      [] m = "put" -> "PUT"
      [] OTHER -> m

(***************************************************************************)
(* The state document.                                                     *)
(***************************************************************************)
defaultState ==
    [ users |-> <<>>,
      queue |-> <<>>,
      spots |-> << [id |-> "tesla-1", type |-> "Tesla", label |-> "Tesla #1", userId |-> Null],
                   [id |-> "tesla-2", type |-> "Tesla", label |-> "Tesla #2", userId |-> Null],
                   [id |-> "chargepoint-1", type |-> "ChargePoint", label |-> "ChargePoint #1", userId |-> Null],
                   [id |-> "chargepoint-2", type |-> "ChargePoint", label |-> "ChargePoint #2", userId |-> Null] >>,
      lastReset |-> Null ]

eligible(pref, type) == pref = "Both" \/ pref = type

\* The predicate without the test that the user exists: an entry whose
\* user is missing counts as eligible.
EntryOfAnyUser(json, q, type) ==
    LET u == FindUser(json.users, q.userId)
    IN  u = 0 \/ eligible(json.users[u].pref, type)

\* The predicate endSession and fillSpots hand to queue.findIndex: the
\* entry's user exists and is eligible for the spot's type.
EntryEligible(json, q, type) ==
    LET u == FindUser(json.users, q.userId)
    IN  u # 0 /\ eligible(json.users[u].pref, type)

\* queue.findIndex(...) in document order: 1-based, 0 when nothing matches.
RECURSIVE FindEligibleFrom(_, _, _)
FindEligibleFrom(json, type, k) ==
    IF k > Len(json.queue) THEN 0
    ELSE IF EntryEligible(json, json.queue[k], type) THEN k
    ELSE FindEligibleFrom(json, type, k + 1)

FindEligible(json, type) == FindEligibleFrom(json, type, 1)

\* queue.splice(idx, 1)
Splice(q, idx) == SubSeq(q, 1, idx - 1) \o SubSeq(q, idx + 1, Len(q))

\* A backfill that assigns the entry and leaves it in the queue.
BackfillKeepsEntry(json, s) ==
    LET idx == FindEligible(json, json.spots[s].type)
    IN  IF idx > 0
        THEN [json EXCEPT !.spots[s].userId = json.queue[idx].userId]
        ELSE json

\* The backfill of spot number s: the first eligible entry in document
\* order leaves the queue and its userId goes to the spot.
Backfill(json, s) ==
    LET idx == FindEligible(json, json.spots[s].type)
    IN  IF idx > 0
        THEN [json EXCEPT !.queue = Splice(json.queue, idx),
                          !.spots[s].userId = json.queue[idx].userId]
        ELSE json

\* spots.find(s => s.id === spotId): 1-based, 0 when there is none.
RECURSIVE FindSpotFrom(_, _, _)
FindSpotFrom(spots, spotId, k) ==
    IF k > Len(spots) THEN 0
    ELSE IF spots[k].id = spotId THEN k
    ELSE FindSpotFrom(spots, spotId, k + 1)

FindSpot(spots, spotId) == FindSpotFrom(spots, spotId, 1)

(***************************************************************************)
(* The actions of the handler, as functions of the parsed document.        *)
(***************************************************************************)
ApplyAddUser(json, name, pref, t) ==
    [json EXCEPT !.users = Append(@, [id |-> t, name |-> trim(name),
                                        pref |-> IF pref = "" THEN "Both" ELSE pref])]

onCharger(json, userId) == \E k \in 1..Len(json.spots) : json.spots[k].userId = userId

inQueue(json, userId) == \E k \in 1..Len(json.queue) : json.queue[k].userId = userId

RECURSIVE MaxPosition(_)
MaxPosition(q) ==
    IF Len(q) = 1 THEN q[1].position
    ELSE LET m == MaxPosition(Tail(q))
         IN  IF q[1].position > m THEN q[1].position ELSE m

\* The next position taken from the length of the queue.
NextPosByLength(json) == Len(json.queue) + 1

nextPos(json) == (IF Len(json.queue) > 0 THEN MaxPosition(json.queue) ELSE 0) + 1

\* addToQueue without the onCharger test.
AddToQueueNoChargerTest(json, userId, t) ==
    IF ~inQueue(json, userId)
    THEN [json EXCEPT !.queue = Append(@, [id |-> t, userId |-> userId,
                                            position |-> nextPos(json)])]
    ELSE json

\* addToQueue without the inQueue test.
AddToQueueNoQueueTest(json, userId, t) ==
    IF ~onCharger(json, userId)
    THEN [json EXCEPT !.queue = Append(@, [id |-> t, userId |-> userId,
                                            position |-> nextPos(json)])]
    ELSE json

\* addToQueue with unshift in place of push.
AddToQueuePrepends(json, userId, t) ==
    IF ~onCharger(json, userId) /\ ~inQueue(json, userId)
    THEN [json EXCEPT !.queue = << [id |-> t, userId |-> userId,
                                    position |-> nextPos(json)] >> \o @]
    ELSE json

ApplyAddToQueue(json, userId, t) ==
    IF ~onCharger(json, userId) /\ ~inQueue(json, userId)
    THEN [json EXCEPT !.queue = Append(@, [id |-> t, userId |-> userId,
                                            position |-> nextPos(json)])]
    ELSE json

\* A removal that renumbers the positions of the entries it keeps.
RemoveFromQueueRenumbers(json, userId) ==
    LET kept == SelectSeq(json.queue, LAMBDA q : q.userId # userId)
    IN  [json EXCEPT !.queue = [k \in 1..Len(kept) |-> [kept[k] EXCEPT !.position = k]]]

ApplyRemoveFromQueue(json, userId) ==
    [json EXCEPT !.queue = SelectSeq(@, LAMBDA q : q.userId # userId)]

\* Array.prototype.sort((a, b) => a.position - b.position): stable, ascending.
RECURSIVE InsertByPosition(_, _)
InsertByPosition(sorted, e) ==
    IF sorted = <<>> THEN <<e>>
    ELSE IF sorted[Len(sorted)].position <= e.position THEN Append(sorted, e)
    ELSE Append(InsertByPosition(SubSeq(sorted, 1, Len(sorted) - 1), e), sorted[Len(sorted)])

RECURSIVE SortByPosition(_)
SortByPosition(q) ==
    IF q = <<>> THEN <<>>
    ELSE InsertByPosition(SortByPosition(SubSeq(q, 1, Len(q) - 1)), q[Len(q)])

\* q.findIndex(e => e.userId === userId), as JavaScript's 0-based index,
\* -1 when there is none.
RECURSIVE FindEntryFrom(_, _, _)
FindEntryFrom(q, userId, k) ==
    IF k >= Len(q) THEN -1
    ELSE IF q[k + 1].userId = userId THEN k
    ELSE FindEntryFrom(q, userId, k + 1)

\* The exchange without the temporary: A.position = B.position;
\* B.position = A.position.
SwapNoTemp(q, idx, to) == [q EXCEPT ![idx + 1].position = q[to + 1].position]

\* const t = A.position; A.position = B.position; B.position = t;
SwapPositions(q, idx, to) ==
    [q EXCEPT ![idx + 1].position = q[to + 1].position,
              ![to + 1].position = q[idx + 1].position]

\* The sort is in place, so the document's queue is the sorted array even
\* when nothing is swapped.
ApplyMoveQueue(json, userId, delta) ==
    LET q == SortByPosition(json.queue)
        idx == FindEntryFrom(q, userId, 0)
        to == idx + delta
    IN  IF idx >= 0 /\ to >= 0 /\ to < Len(q)
        THEN [json EXCEPT !.queue = SwapPositions(q, idx, to)]
        ELSE [json EXCEPT !.queue = q]

ApplyEndSession(json, spotId) ==
    LET s == FindSpot(json.spots, spotId)
    IN  IF s > 0 THEN Backfill([json EXCEPT !.spots[s].userId = Null], s)
        ELSE json

\* json.spots.filter(s => !s.userId): the spots empty when the loop starts,
\* as indices into spots, in document order.
EmptySpots(json) ==
    SelectSeq([k \in 1..Len(json.spots) |-> k], LAMBDA k : json.spots[k].userId = Null)

\* The for loop over the empty spots; each pass sees the queue the previous
\* pass left.
RECURSIVE FillLoop(_, _)
FillLoop(json, todo) ==
    IF todo = <<>> THEN json
    ELSE FillLoop(Backfill(json, Head(todo)), Tail(todo))

\* A fillSpots that stops after the first empty spot.
FillFirstSpotOnly(json) == FillLoop(json, SubSeq(EmptySpots(json), 1, 1))

ApplyFillSpots(json) == FillLoop(json, EmptySpots(json))

ApplyClearQueue(json) == [json EXCEPT !.queue = <<>>]

ApplyWriteAll(json, payload) == payload

(***************************************************************************)
(* State.                                                                  *)
(*   store  the file in the repository: <<>> while it does not exist, else *)
(*          <<document>>.  The file's sha is the git blob sha, the hash of *)
(*          its content; the model writes the content itself for the sha.  *)
(*          JSON.stringify and JSON.parse are inverse on these documents,  *)
(*          so the file is kept in its parsed form.                        *)
(*   inv    per caller, the invocation of exports.handler in flight: idle, *)
(*          or awaiting its PUT with the action it applied and the locals  *)
(*          json and sha.  stale notes that the repository accepted        *)
(*          another invocation's PUT after this one's read.                *)
(*   now    the value Date.now() returns.                                  *)
(*   env    process.env: whether GH_TOKEN, GH_OWNER and GH_REPO are set,   *)
(*          and INTERNAL_KEY ("" when unset).                              *)
(*   last   the response returned by the step just taken; NoResponse when  *)
(*          the step returned none.  reads and writes count the requests   *)
(*          the invocation sent to the repository.                         *)
(***************************************************************************)
VARIABLES store, inv, now, env, last

vars == <<store, inv, now, env, last>>

Procs == {"A", "B"}

Idle == [pc |-> "idle"]

NoResponse == [status |-> 0, msg |-> "", body |-> <<>>, reads |-> 0, writes |-> 0]

bad(status, msg, reads, writes) ==
    [status |-> status, msg |-> msg, body |-> <<>>, reads |-> reads, writes |-> writes]

\* body: JSON.stringify(json) on the GET path
GetResponse(json) ==
    [status |-> 200, msg |-> "json", body |-> <<json>>, reads |-> 1, writes |-> 0]

\* body: JSON.stringify({ ok: true })
OkResponse(reads, writes) ==
    [status |-> 200, msg |-> "ok", body |-> <<>>, reads |-> reads, writes |-> writes]

\* (event.httpMethod || 'GET').toUpperCase()
MethodOf(m) == toUpperCase(IF m = "" THEN "GET" ELSE m)

\* if (!token || !owner || !repo) return bad(400, ...)
EnvOk == env.ok

\* The key check without the test of the method.
KeyRejectsAnyMethod(method, headerKey) == env.key # "" /\ headerKey # env.key

\* if (key && headerKey !== key) return bad(403, 'Forbidden'), POST only
KeyRejects(method, headerKey) ==
    MethodOf(method) = "POST" /\ env.key # "" /\ headerKey # env.key

\* readFromRepo: 404 gives { json: null, sha: null }, else the parsed
\* content and the blob sha.
readFromRepo == [json |-> store, sha |-> store]

\* if (!json) json = defaultState()
JsonOf(read) == IF read.json = <<>> THEN defaultState ELSE read.json[1]

\* The document the invocation in flight read.
Base(i) == JsonOf([json |-> inv[i].sha, sha |-> inv[i].sha])

\* The repository's answer to PUT /contents/path: the file is created when
\* it does not exist and no sha is sent, replaced when the sha sent is the
\* file's blob sha, and the request is refused otherwise.
PutStatus(sha) ==
    IF store = <<>> /\ sha = <<>> THEN 201
    ELSE IF store # <<>> /\ sha = store THEN 200
    ELSE IF sha = <<>> THEN 422
    ELSE 409

\* r.ok
ResponseOk(status) == status >= 200 /\ status <= 299

\* The test of r.ok inverted: if (r.ok) throw ...
WriteThrowsOnOk(status) == ResponseOk(status)

\* if (!r.ok) throw new Error(`Repo write failed: ${r.status}`)
WriteThrows(status) == ~ResponseOk(status)

WriteFailedMsg(status) ==
    CASE status = 409 -> "Error: Repo write failed: 409"
      [] status = 422 -> "Error: Repo write failed: 422"
      [] OTHER -> "Error: Repo write failed: 5xx"

\* The sha of a fresh read made just before the PUT.
ShaOfFreshRead(i) == readFromRepo.sha

\* if (sha) body.sha = sha, with the sha of the read that opened the
\* invocation
ShaSent(i) == inv[i].sha

InitStore ==
    /\ store = <<>>
    /\ inv = [i \in Procs |-> Idle]
    /\ now = 1
    /\ last = NoResponse

\* Time passes.
Tick ==
    /\ now < MaxNow
    /\ now' = now + 1
    /\ last' = NoResponse
    /\ UNCHANGED <<store, inv, env>>

\* A response sent without a PUT.
Respond(i, r) ==
    /\ last' = r
    /\ inv' = [inv EXCEPT ![i] = Idle]
    /\ UNCHANGED <<store, now, env>>

MissingEnv(i) ==
    /\ inv[i].pc = "idle"
    /\ ~EnvOk
    /\ Respond(i, bad(400, "Missing env configuration", 0, 0))

Forbidden(i, method, headerKey) ==
    /\ inv[i].pc = "idle"
    /\ EnvOk
    /\ KeyRejects(method, headerKey)
    /\ Respond(i, bad(403, "Forbidden", 0, 0))

\* readFromRepo throws: the repository answered neither ok nor 404.
ReadFails(i, method, headerKey) ==
    /\ inv[i].pc = "idle"
    /\ EnvOk
    /\ ~KeyRejects(method, headerKey)
    /\ Respond(i, bad(500, "Error: Repo read failed", 1, 0))

\* A GET that creates the file when there is none.
GetCreatesFile(i, method) ==
    /\ inv[i].pc = "idle"
    /\ EnvOk
    /\ MethodOf(method) = "GET"
    /\ last' = GetResponse(JsonOf(readFromRepo))
    /\ store' = <<JsonOf(readFromRepo)>>
    /\ inv' = [inv EXCEPT ![i] = Idle]
    /\ UNCHANGED <<now, env>>

Get(i, method) ==
    /\ inv[i].pc = "idle"
    /\ EnvOk
    /\ MethodOf(method) = "GET"
    /\ Respond(i, GetResponse(JsonOf(readFromRepo)))

MethodNotAllowed(i, method) ==
    /\ inv[i].pc = "idle"
    /\ EnvOk
    /\ MethodOf(method) \notin {"GET", "POST"}
    /\ Respond(i, bad(405, "Method not allowed", 1, 0))

\* A POST that passed the key check and whose read succeeded.
PostRead(i) ==
    /\ inv[i].pc = "idle"
    /\ EnvOk
    /\ \E headerKey \in {"", "k"} : ~KeyRejects("POST", headerKey)

\* JSON.parse(event.body) throws.
BadBody(i) ==
    /\ PostRead(i)
    /\ Respond(i, bad(500, "Error: Unexpected token", 1, 0))

\* No branch of the dispatch matches body.action (an absent body included).
UnknownAction(i) ==
    /\ PostRead(i)
    /\ Respond(i, bad(400, "Unknown action", 1, 0))

\* The action was applied to json; the invocation awaits writeToRepo.
Submit(i, action, json) ==
    /\ inv' = [inv EXCEPT ![i] = [pc |-> "write", action |-> action,
                                  sha |-> readFromRepo.sha, json |-> json,
                                  stale |-> FALSE]]
    /\ last' = NoResponse
    /\ UNCHANGED <<store, now, env>>

\* if (!name) return bad(400, 'Name required')
NameMissing(name) == trim(name) = <<>>

AddUser(i, name, pref) ==
    /\ PostRead(i)
    /\ IF NameMissing(name)
       THEN Respond(i, bad(400, "Name required", 1, 0))
       ELSE /\ Len(JsonOf(readFromRepo).users) < MaxUsers
            /\ Submit(i, "addUser", ApplyAddUser(JsonOf(readFromRepo), name, pref, now))

AddToQueue(i, userId) ==
    /\ PostRead(i)
    /\ IF userId = Null
       THEN Respond(i, bad(400, "userId required", 1, 0))
       ELSE /\ nextPos(JsonOf(readFromRepo)) <= MaxPos
            /\ Submit(i, "addToQueue", ApplyAddToQueue(JsonOf(readFromRepo), userId, now))

RemoveFromQueue(i, userId) ==
    /\ PostRead(i)
    /\ Submit(i, "removeFromQueue", ApplyRemoveFromQueue(JsonOf(readFromRepo), userId))

MoveQueue(i, userId, delta) ==
    /\ PostRead(i)
    /\ Submit(i, "moveQueue", ApplyMoveQueue(JsonOf(readFromRepo), userId, delta))

EndSession(i, spotId) ==
    /\ PostRead(i)
    /\ Submit(i, "endSession", ApplyEndSession(JsonOf(readFromRepo), spotId))

FillSpots(i) ==
    /\ PostRead(i)
    /\ Submit(i, "fillSpots", ApplyFillSpots(JsonOf(readFromRepo)))

ClearQueue(i) ==
    /\ PostRead(i)
    /\ Submit(i, "clearQueue", ApplyClearQueue(JsonOf(readFromRepo)))

WriteAll(i, payload) ==
    /\ PostRead(i)
    /\ Submit(i, "writeAll", ApplyWriteAll(JsonOf(readFromRepo), payload))

\* The invocation ends with response r; file is what the repository holds
\* after its PUT, accepted tells whether the repository took the PUT.
Settle(i, r, file, accepted) ==
    /\ store' = file
    /\ last' = r
    /\ inv' = [j \in Procs |->
                  IF j = i THEN Idle
                  ELSE IF accepted /\ inv[j].pc = "write" THEN [inv[j] EXCEPT !.stale = TRUE]
                  ELSE inv[j]]
    /\ UNCHANGED <<now, env>>

\* A catch that, on a refused PUT, reads the sha again and repeats the PUT.
CaughtRetries(i, status, file, accepted) ==
    IF status \in {409, 422}
    THEN Settle(i, OkResponse(2, 2), <<inv[i].json>>, TRUE)
    ELSE Settle(i, bad(500, WriteFailedMsg(status), 1, 1), file, accepted)

\* catch (err) { return bad(500, `Error: ${err.message}`) } after
\* writeToRepo threw on the status: no second read, no second PUT.
Caught(i, status, file, accepted) ==
    Settle(i, bad(500, WriteFailedMsg(status), 1, 1), file, accepted)

\* writeToRepo returned: 200 { ok: true }.
Returned(i, file, accepted) == Settle(i, OkResponse(1, 1), file, accepted)

\* await writeToRepo(owner, repo, path, token, json, sha): the repository
\* answers the PUT, taking the document or refusing it.
Write(i) ==
    /\ inv[i].pc = "write"
    /\ LET status == PutStatus(ShaSent(i))
           accepted == ResponseOk(status)
           file == IF accepted THEN <<inv[i].json>> ELSE store
       IN  IF WriteThrows(status)
           THEN Caught(i, status, file, accepted)
           ELSE Returned(i, file, accepted)

\* The PUT does not reach the repository, or the repository answers 5xx.
WriteUnavailable(i) ==
    /\ inv[i].pc = "write"
    /\ Caught(i, 503, store, FALSE)

(***************************************************************************)
(* Spec: the allocation engine.  One caller at a time posts the actions    *)
(* addUser, addToQueue, removeFromQueue, moveQueue, endSession, fillSpots  *)
(* and clearQueue with the right key; writeAll is never sent.              *)
(***************************************************************************)
Names == { <<>>, <<" ">>, <<"a">>, <<" ", "a", " ">> }
Prefs == {"", "Tesla", "ChargePoint", "Both"}
UserIds == 0..MaxUserId
Deltas == (-MaxDelta)..MaxDelta
SpotIds == {"tesla-1", "tesla-2", "chargepoint-1", "chargepoint-2", "no-such-spot"}

Init ==
    /\ InitStore
    /\ env = [ok |-> TRUE, key |-> "k"]

Next ==
    \/ Tick
    \/ \E n \in Names, p \in Prefs : AddUser("A", n, p)
    \/ \E u \in UserIds : AddToQueue("A", u)
    \/ \E u \in UserIds : RemoveFromQueue("A", u)
    \/ \E u \in UserIds, d \in Deltas : MoveQueue("A", u, d)
    \/ \E s \in SpotIds : EndSession("A", s)
    \/ FillSpots("A")
    \/ ClearQueue("A")
    \/ Write("A")
    \/ WriteUnavailable("A")

Spec == Init /\ [][Next]_vars

(***************************************************************************)
(* The documents in play: the stored one and those the engine computed.    *)
(***************************************************************************)
Documents ==
    {store[k] : k \in 1..Len(store)} \cup {inv[i].json : i \in {j \in Procs : inv[j].pc = "write"}}

InFlight(i, action) == inv[i].pc = "write" /\ inv[i].action = action

\* The step in which caller i's request for the action was applied.
Submitted(i, action) ==
    inv[i].pc = "idle" /\ inv'[i].pc = "write" /\ inv'[i].action = action

Placed(json) == {json.spots[k].userId : k \in 1..Len(json.spots)} \ {Null}

Queued(json) == {json.queue[k].userId : k \in 1..Len(json.queue)}

\* C1: no userId is at once the userId of a spot and of a queue entry, in
\* the stored document and in every document the engine hands to the store.
NoDoublePlacement == \A json \in Documents : Placed(json) \cap Queued(json) = {}

\* An addToQueue that changed nothing although the queue was empty: the
\* user was on a charger.
NoDoublePlacementWitness ==
    /\ InFlight("A", "addToQueue")
    /\ inv["A"].json = Base("A")
    /\ Base("A").queue = <<>>
    /\ Placed(Base("A")) # {}

\* C10: no two queue entries have the same userId.
OneEntryPerUser ==
    \A json \in Documents :
        \A k1, k2 \in 1..Len(json.queue) :
            json.queue[k1].userId = json.queue[k2].userId => k1 = k2

\* An addToQueue that changed nothing although no spot was taken: the user
\* was queued already.
OneEntryPerUserWitness ==
    /\ InFlight("A", "addToQueue")
    /\ inv["A"].json = Base("A")
    /\ Placed(Base("A")) = {}
    /\ Len(Base("A").queue) >= 2

(***************************************************************************)
(* endSession.                                                             *)
(***************************************************************************)
\* The queue indices whose entry is eligible for a spot type.
EligibleEntries(json, type) ==
    {k \in 1..Len(json.queue) : EntryEligible(json, json.queue[k], type)}

\* The eligible entries with the lowest position value.
LowestEligible(json, type) ==
    {k \in EligibleEntries(json, type) :
        \A m \in EligibleEntries(json, type) :
            json.queue[k].position <= json.queue[m].position}

\* What the claim asks of endSession(spotId) on document b with result j.
EndSessionByPosition(b, j, spotId) ==
    LET s == FindSpot(b.spots, spotId)
        type == b.spots[s].type
    IN  s > 0 =>
          IF EligibleEntries(b, type) = {}
          THEN j.spots[s].userId = Null /\ j.queue = b.queue
          ELSE \E k \in LowestEligible(b, type) :
                  /\ j.spots[s].userId = b.queue[k].userId
                  /\ j.queue = Splice(b.queue, k)

\* C3: every endSession on an existing spot leaves the spot empty when no
\* queued user is eligible, and otherwise gives it to the eligible entry
\* with the lowest position, which alone leaves the queue.
EndSessionTakesLowestPosition ==
    [][Submitted("A", "endSession") =>
          \A s \in SpotIds :
              EndSession("A", s) =>
                  EndSessionByPosition(JsonOf(readFromRepo), inv'["A"].json, s)]_vars

(***************************************************************************)
(* fillSpots.                                                              *)
(***************************************************************************)
\* The spots fillSpots filled: empty in b, taken in j.
Filled(b, j) == {k \in 1..Len(b.spots) : b.spots[k].userId = Null /\ j.spots[k].userId # Null}

SpotsOf(json, userId) == {k \in 1..Len(json.spots) : json.spots[k].userId = userId}

\* C4: after fillSpots every user it moved out of the queue holds exactly
\* one spot and has no queue entry, and at every pass of the loop the users
\* assigned by the earlier passes are out of the queue the pass scans.
FillSpotsAssignsOnce ==
    InFlight("A", "fillSpots") =>
        LET b == Base("A")
            j == inv["A"].json
            todo == EmptySpots(b)
        IN  /\ \A k \in Filled(b, j) :
                  /\ inQueue(b, j.spots[k].userId)
                  /\ ~inQueue(j, j.spots[k].userId)
                  /\ SpotsOf(j, j.spots[k].userId) = {k}
            /\ \A n \in 0..Len(todo) :
                  LET mid == FillLoop(b, SubSeq(todo, 1, n))
                  IN  \A k \in Filled(b, mid) : ~inQueue(mid, mid.spots[k].userId)

\* A fillSpots that filled two spots.
FillSpotsAssignsOnceWitness ==
    /\ InFlight("A", "fillSpots")
    /\ Cardinality(Filled(Base("A"), inv["A"].json)) >= 2

(***************************************************************************)
(* addToQueue.                                                             *)
(***************************************************************************)
\* C5: addToQueue for a user who is queued or on a charger leaves the
\* document as it is, and a second addToQueue of the same user adds nothing
\* to the first's result.
AddToQueueIdempotent ==
    [][Submitted("A", "addToQueue") =>
          \A u \in UserIds \ {Null} :
              AddToQueue("A", u) =>
                 LET b == JsonOf(readFromRepo)
                     j == inv'["A"].json
                 IN  /\ (onCharger(b, u) \/ inQueue(b, u)) => j = b
                     /\ \A t \in 1..MaxNow : ApplyAddToQueue(j, u, t) = j]_vars

\* An addToQueue that changed nothing, with a user queued and a user on a
\* charger.
AddToQueueIdempotentWitness ==
    /\ InFlight("A", "addToQueue")
    /\ inv["A"].json = Base("A")
    /\ Placed(Base("A")) # {}
    /\ Queued(Base("A")) # {}

(***************************************************************************)
(* moveQueue.                                                              *)
(***************************************************************************)
PositionsAt(q, p) == {k \in 1..Len(q) : q[k].position = p}

EntryOf(q, userId) == q[FindEntryFrom(q, userId, 0) + 1]

Moved(q, r) == {u \in Queued([queue |-> q]) : EntryOf(q, u).position # EntryOf(r, u).position}

\* What the claim asks of moveQueue on queue q with result r.
MoveQueueSwaps(q, r) ==
    /\ Len(r) = Len(q)
    /\ \A p \in 0..MaxPos : Cardinality(PositionsAt(r, p)) = Cardinality(PositionsAt(q, p))
    /\ Queued([queue |-> r]) = Queued([queue |-> q])
    /\ \A u \in Queued([queue |-> q]) : EntryOf(r, u).id = EntryOf(q, u).id
    /\ Cardinality(Moved(q, r)) \in {0, 2}
    /\ \A u, v \in Moved(q, r) :
          u # v => /\ EntryOf(r, u).position = EntryOf(q, v).position
                   /\ EntryOf(r, v).position = EntryOf(q, u).position

\* C6: every moveQueue keeps the multiset of positions, the userIds and
\* each entry's id, and changes the positions of no entry or of two entries
\* that exchange them.
MoveQueuePreserves ==
    InFlight("A", "moveQueue") => MoveQueueSwaps(Base("A").queue, inv["A"].json.queue)

\* A moveQueue on three entries that exchanged two positions.
MoveQueuePreservesWitness ==
    /\ InFlight("A", "moveQueue")
    /\ Len(Base("A").queue) = 3
    /\ Cardinality(Moved(Base("A").queue, inv["A"].json.queue)) = 2

(***************************************************************************)
(* SpecRace: the whole handler with two callers whose invocations          *)
(* interleave at the two requests to the repository: every response path   *)
(* of the handler, with the actions addUser, addToQueue, fillSpots and     *)
(* writeAll.                                                               *)
(***************************************************************************)
\* The documents writeAll is sent: the default, one with a user both on a
\* charger and queued, one with a user queued twice.
WriteAllPayloads ==
    { defaultState,
      [defaultState EXCEPT !.users = << [id |-> 1, name |-> <<"a">>, pref |-> "Both"] >>,
                           !.queue = << [id |-> 1, userId |-> 1, position |-> 1] >>,
                           !.spots[1].userId = 1],
      [defaultState EXCEPT !.users = << [id |-> 1, name |-> <<"a">>, pref |-> "Both"] >>,
                           !.queue = << [id |-> 1, userId |-> 1, position |-> 1],
                                        [id |-> 1, userId |-> 1, position |-> 2] >>] }

InitRace ==
    /\ InitStore
    /\ env \in { [ok |-> TRUE, key |-> ""], [ok |-> TRUE, key |-> "k"],
                 [ok |-> FALSE, key |-> ""] }

NextRace ==
    \/ Tick
    \/ \E i \in Procs :
          \/ MissingEnv(i)
          \/ \E k \in {"", "x"} : Forbidden(i, "post", k)
          \/ \E m \in {"", "POST"} : ReadFails(i, m, "k")
          \/ \E m \in {"", "get"} : Get(i, m)
          \/ MethodNotAllowed(i, "PUT")
          \/ BadBody(i)
          \/ UnknownAction(i)
          \/ \E n \in { <<" ">>, <<"a">> } : AddUser(i, n, "")
          \/ \E u \in {Null, 1} : AddToQueue(i, u)
          \/ FillSpots(i)
          \/ \E p \in WriteAllPayloads : WriteAll(i, p)
          \/ Write(i)
          \/ WriteUnavailable(i)

SpecRace == InitRace /\ [][NextRace]_vars

\* The step in which caller i's PUT was answered and its invocation ended.
Finished(i) == inv[i].pc = "write" /\ inv'[i].pc = "idle"

ConflictMsgs == {"Error: Repo write failed: 409", "Error: Repo write failed: 422"}

TypesOfSpots(json, type) == {k \in 1..Len(json.spots) : json.spots[k].type = type}

\* The canonical default document, in the claim's words.
CanonicalDefault(json) ==
    /\ Len(json.spots) = 4
    /\ Cardinality({json.spots[k].type : k \in 1..4}) = 2
    /\ \A k \in 1..4 : Cardinality(TypesOfSpots(json, json.spots[k].type)) = 2
    /\ \A k \in 1..4 : json.spots[k].userId = Null
    /\ json.users = <<>>
    /\ json.queue = <<>>
    /\ json.lastReset = Null

\* C7: a GET answers 200 with the stored document, or with the canonical
\* default when the repository holds no file, and leaves the repository as
\* it was.
GetReturnsStoredOrDefault ==
    [][last'.msg = "json" =>
          /\ store' = store
          /\ last'.status = 200
          /\ Len(last'.body) = 1
          /\ IF store = <<>> THEN CanonicalDefault(last'.body[1]) ELSE last'.body = store]_vars

\* A GET answered with the default while the repository holds no file.
GetReturnsStoredOrDefaultWitness ==
    /\ last.msg = "json"
    /\ store = <<>>
    /\ last.body = <<defaultState>>

\* C8: a step that answers with a failure leaves the stored file as it was,
\* the failures being 400, 403, 405 and 500; and no addUser with an empty
\* trimmed name gets as far as the PUT.
FailureLeavesStore ==
    [][/\ last'.status \notin {0, 200} =>
             (store' = store /\ last'.status \in {400, 403, 405, 500})
       /\ \A i \in Procs :
             Submitted(i, "addUser") =>
                 inv'[i].json.users[Len(inv'[i].json.users)].name # <<>>]_vars

\* A failure answered while the repository holds a document.
FailureLeavesStoreWitness ==
    /\ last.status = 400
    /\ last.msg = "Name required"
    /\ store # <<>>

\* C9: every invocation sends at most one read and one PUT, and one whose
\* PUT meets a version conflict ends at once with a failure: the file and
\* the other invocations are untouched and it is not in flight again.
NoRetryOnConflict ==
    [][/\ last'.reads <= 1
       /\ last'.writes <= 1
       /\ \A i \in Procs :
             (Finished(i) /\ PutStatus(inv[i].sha) \in {409, 422}) =>
                 /\ last'.status = 500
                 /\ store' = store
                 /\ \A j \in Procs : inv'[j].pc = "write" => inv'[j] = inv[j]]_vars

\* The second of two callers that both read no file was answered 422.
NoRetryOnConflictWitness ==
    /\ last.msg = "Error: Repo write failed: 422"
    /\ last.reads = 1
    /\ last.writes = 1

(***************************************************************************)
(* fillSpots and the matching rule.                                        *)
(***************************************************************************)
\* What the matching rule asks of the pass of fillSpots over spot s, which
\* scans the queue of document mid: the spot stays empty when no queued
\* user is eligible and else goes to an eligible entry of lowest position.
FillPassByPosition(mid, j, s) ==
    IF EligibleEntries(mid, mid.spots[s].type) = {}
    THEN j.spots[s].userId = Null
    ELSE \E k \in LowestEligible(mid, mid.spots[s].type) :
            j.spots[s].userId = mid.queue[k].userId

\* C11: every spot fillSpots fills goes to the user whose entry has the
\* lowest position among the eligible entries still queued when the spot is
\* scanned, whatever actions produced the document.
FillSpotsTakesLowestPosition ==
    InFlight("A", "fillSpots") =>
        LET b == Base("A")
            j == inv["A"].json
            todo == EmptySpots(b)
        IN  \A n \in 1..Len(todo) :
                FillPassByPosition(FillLoop(b, SubSeq(todo, 1, n - 1)), j, todo[n])

(***************************************************************************)
(* SpecAuth: one caller sends requests with every method and every x-key   *)
(* header under every environment; each request runs through the handler   *)
(* in the order of its code.                                               *)
(***************************************************************************)
\* event.httpMethod: absent, GET and POST in either case, and another.
Methods == {"", "get", "post", "POST", "PUT"}

\* event.headers['x-key']: absent, the secret of the model, another key.
HeaderKeys == {"", "k", "x"}

\* exports.handler on one event: the environment check, the key check, the
\* read, then the dispatch on the method and on body.action.
Request(i, method, headerKey) ==
    IF ~EnvOk THEN MissingEnv(i)
    ELSE IF KeyRejects(method, headerKey) THEN Forbidden(i, method, headerKey)
    ELSE \/ ReadFails(i, method, headerKey)
         \/ IF MethodOf(method) = "GET" THEN Get(i, method)
            ELSE IF MethodOf(method) # "POST" THEN MethodNotAllowed(i, method)
            ELSE \/ BadBody(i)
                 \/ UnknownAction(i)
                 \/ \E n \in { <<" ">>, <<"a">> } : AddUser(i, n, "")
                 \/ \E u \in {Null, 1, 2} : AddToQueue(i, u)
                 \/ FillSpots(i)
                 \/ \E p \in WriteAllPayloads : WriteAll(i, p)

InitAuth ==
    /\ InitStore
    /\ env \in { [ok |-> TRUE, key |-> ""], [ok |-> TRUE, key |-> "k"],
                 [ok |-> FALSE, key |-> ""], [ok |-> FALSE, key |-> "k"] }

NextAuth ==
    \/ Tick
    \/ \E m \in Methods, k \in HeaderKeys : Request("A", m, k)
    \/ Write("A")
    \/ WriteUnavailable("A")

SpecAuth == InitAuth /\ [][NextAuth]_vars

\* C12: with a secret configured, a POST whose x-key is absent or differs
\* from the secret is answered 403 Forbidden, sends nothing to the
\* repository and leaves the stored file as it was; no GET is answered 403,
\* whatever its key; with no secret configured no request is answered 403.
AuthorizationGate ==
    [][inv["A"].pc = "idle" =>
          \A m \in Methods, k \in HeaderKeys :
              (EnvOk /\ Request("A", m, k)) =>
                  /\ (MethodOf(m) = "POST" /\ env.key # "" /\ k # env.key) =>
                        /\ last' = bad(403, "Forbidden", 0, 0)
                        /\ store' = store
                        /\ inv'["A"] = Idle
                  /\ MethodOf(m) = "GET" => last'.status # 403
                  /\ env.key = "" => last'.status # 403]_vars

\* A POST was answered 403 while the repository holds a document.
AuthorizationGateWitness ==
    /\ last = bad(403, "Forbidden", 0, 0)
    /\ env.key = "k"
    /\ store # <<>>

(***************************************************************************)
(* moveQueue without effect.                                               *)
(***************************************************************************)
\* The user has no entry, or the target index idx + delta lies outside
\* [0, len), idx being the user's index in the queue sorted by position.
MoveQueueOutOfRange(q, userId, delta) ==
    LET idx == FindEntryFrom(SortByPosition(q), userId, 0)
    IN  idx < 0 \/ idx + delta < 0 \/ idx + delta >= Len(q)

\* C13: a moveQueue whose user is not queued or whose target is out of
\* range persists the document it read: the same queue entries in the same
\* document order, the same spots and users.
MoveQueueNoOpKeepsDocument ==
    InFlight("A", "moveQueue") =>
        \A u \in UserIds, d \in Deltas :
            (/\ MoveQueueOutOfRange(Base("A").queue, u, d)
             /\ inv["A"].json = ApplyMoveQueue(Base("A"), u, d))
                => inv["A"].json = Base("A")

(***************************************************************************)
(* addToQueue of a new user.                                               *)
(***************************************************************************)
PositionsOf(q) == {q[k].position : k \in 1..Len(q)}

\* What the claim asks of addToQueue(userId) on document b with result j.
AppendsOne(b, j, userId) ==
    LET e == j.queue[Len(j.queue)]
    IN  /\ Len(j.queue) = Len(b.queue) + 1
        /\ SubSeq(j.queue, 1, Len(b.queue)) = b.queue
        /\ e.userId = userId
        /\ \A p \in PositionsOf(b.queue) : e.position > p
        /\ IF b.queue = <<>> THEN e.position = 1
           ELSE e.position - 1 \in PositionsOf(b.queue)
        /\ j.users = b.users
        /\ j.spots = b.spots
        /\ j.lastReset = b.lastReset

\* C14: addToQueue for a user neither on a charger nor queued appends one
\* entry for that user, with position one more than the highest position
\* in the queue (1 when the queue is empty), and changes nothing else.
AddToQueueAppends ==
    [][Submitted("A", "addToQueue") =>
          \A u \in UserIds \ {Null} :
              (/\ AddToQueue("A", u)
               /\ ~onCharger(JsonOf(readFromRepo), u)
               /\ ~inQueue(JsonOf(readFromRepo), u))
                  => AppendsOne(JsonOf(readFromRepo), inv'["A"].json, u)]_vars

\* An addToQueue that appended position 3 to a queue holding only an entry
\* of position 2.
AddToQueueAppendsWitness ==
    /\ InFlight("A", "addToQueue")
    /\ Len(Base("A").queue) = 1
    /\ Base("A").queue[1].position = 2
    /\ Len(inv["A"].json.queue) = 2
    /\ inv["A"].json.queue[2].position = 3

(***************************************************************************)
(* removeFromQueue.                                                        *)
(***************************************************************************)
\* The indices of the entries of q that belong to other users.
KeptIndices(q, userId) == {k \in 1..Len(q) : q[k].userId # userId}

\* The n-th of these indices, in ascending order.
NthKept(q, userId, n) ==
    CHOOSE k \in KeptIndices(q, userId) :
        Cardinality({m \in KeptIndices(q, userId) : m <= k}) = n

\* What the claim asks of removeFromQueue(userId) on document b with
\* result j.
RemovesOnlyUser(b, j, userId) ==
    /\ Len(j.queue) = Cardinality(KeptIndices(b.queue, userId))
    /\ \A n \in 1..Len(j.queue) : j.queue[n] = b.queue[NthKept(b.queue, userId, n)]
    /\ j.users = b.users
    /\ j.spots = b.spots
    /\ j.lastReset = b.lastReset
    /\ ~inQueue(b, userId) => j = b

\* C15: removeFromQueue(userId) removes the entries of that user and only
\* them, the others keeping their ids, positions and order; spots and users
\* stay; a second removal changes nothing more, and a removal of a user
\* without entry changes nothing.  The same holds of a queue that lists a
\* user twice.
RemoveFromQueueRemovesUser ==
    [][Submitted("A", "removeFromQueue") =>
          \A u \in UserIds :
              RemoveFromQueue("A", u) =>
                  /\ RemovesOnlyUser(JsonOf(readFromRepo), inv'["A"].json, u)
                  /\ ApplyRemoveFromQueue(inv'["A"].json, u) = inv'["A"].json
                  /\ \A p \in WriteAllPayloads :
                        /\ RemovesOnlyUser(p, ApplyRemoveFromQueue(p, u), u)
                        /\ ApplyRemoveFromQueue(ApplyRemoveFromQueue(p, u), u)
                              = ApplyRemoveFromQueue(p, u)]_vars

\* A removeFromQueue that took the first of three entries.
RemoveFromQueueRemovesUserWitness ==
    /\ InFlight("A", "removeFromQueue")
    /\ Len(Base("A").queue) = 3
    /\ inv["A"].json.queue = Tail(Base("A").queue)

(***************************************************************************)
(* Invariants of the spots and of the positions.                           *)
(***************************************************************************)
UserIdsOf(json) == {json.users[k].id : k \in 1..Len(json.users)}

\* C16: in the stored document and in every document the engine computes,
\* the userId of a taken spot is the id of a user in users.
SpotsReferenceUsers == \A json \in Documents : Placed(json) \subseteq UserIdsOf(json)

\* A fillSpots that filled a spot and passed over a queued userId that
\* belongs to no user.
SpotsReferenceUsersWitness ==
    /\ InFlight("A", "fillSpots")
    /\ Filled(Base("A"), inv["A"].json) # {}
    /\ Queued(Base("A")) \ UserIdsOf(Base("A")) # {}
    /\ Queued(inv["A"].json) \ UserIdsOf(Base("A")) # {}

\* C17: in the stored document and in every document the engine computes,
\* no userId is the userId of two spots.
ExclusiveOccupancy ==
    \A json \in Documents :
        \A k1, k2 \in 1..Len(json.spots) :
            (json.spots[k1].userId # Null /\ json.spots[k1].userId = json.spots[k2].userId)
                => k1 = k2

\* A fillSpots that placed a second user next to one already on a charger.
ExclusiveOccupancyWitness ==
    /\ InFlight("A", "fillSpots")
    /\ Cardinality(Placed(Base("A"))) = 1
    /\ Cardinality(Filled(Base("A"), inv["A"].json)) = 1
    /\ Cardinality(Placed(inv["A"].json)) = 2

\* The pairs of an empty spot and a queue entry whose user exists and is
\* eligible for the spot's type.
FillablePairs(json) ==
    {<<s, k>> \in (1..Len(json.spots)) \X (1..Len(json.queue)) :
        /\ json.spots[s].userId = Null
        /\ EntryEligible(json, json.queue[k], json.spots[s].type)}

\* C18: the document fillSpots computes has no empty spot together with a
\* queue entry whose user exists and is eligible for the spot's type, and
\* when its write succeeds that document is the stored one.
FillSpotsFillsAll ==
    [][/\ Submitted("A", "fillSpots") => FillablePairs(inv'["A"].json) = {}
       /\ (Finished("A") /\ inv["A"].action = "fillSpots" /\ last'.status = 200) =>
             /\ store' = <<inv["A"].json>>
             /\ FillablePairs(store'[1]) = {}]_vars

\* A fillSpots that filled two spots and left an entry in the queue and a
\* spot empty.
FillSpotsFillsAllWitness ==
    /\ InFlight("A", "fillSpots")
    /\ Cardinality(Filled(Base("A"), inv["A"].json)) = 2
    /\ FillablePairs(Base("A")) # {}
    /\ inv["A"].json.queue # <<>>
    /\ \E s \in 1..Len(inv["A"].json.spots) : inv["A"].json.spots[s].userId = Null

(***************************************************************************)
(* SpecFifo: the allocation engine without moveQueue (and, as in Spec,     *)
(* without writeAll).                                                      *)
(***************************************************************************)
NextFifo ==
    \/ Tick
    \/ \E n \in Names, p \in Prefs : AddUser("A", n, p)
    \/ \E u \in UserIds : AddToQueue("A", u)
    \/ \E u \in UserIds : RemoveFromQueue("A", u)
    \/ \E s \in SpotIds : EndSession("A", s)
    \/ FillSpots("A")
    \/ ClearQueue("A")
    \/ Write("A")
    \/ WriteUnavailable("A")

SpecFifo == Init /\ [][NextFifo]_vars

\* The queue in order of arrival.  An entry's position is its arrival
\* stamp: addToQueue gives it a position above every queued one and no
\* action but moveQueue changes a position.  Along the document order the
\* positions rise strictly.
InArrivalOrder(q) ==
    \A k1, k2 \in 1..Len(q) : k1 < k2 => q[k1].position < q[k2].position

\* C19: without moveQueue every queue, stored or computed, is in order of
\* arrival with strictly ascending positions, and every spot endSession or
\* fillSpots hands out goes to the eligible queued user who arrived first:
\* no eligible entry of lower position stays behind.
FirstComeFirstServed ==
    /\ \A json \in Documents : InArrivalOrder(json.queue)
    /\ InFlight("A", "endSession") =>
          \A s \in SpotIds :
              inv["A"].json = ApplyEndSession(Base("A"), s)
                  => EndSessionByPosition(Base("A"), inv["A"].json, s)
    /\ InFlight("A", "fillSpots") =>
          \A n \in 1..Len(EmptySpots(Base("A"))) :
              FillPassByPosition(
                  FillLoop(Base("A"), SubSeq(EmptySpots(Base("A")), 1, n - 1)),
                  inv["A"].json, EmptySpots(Base("A"))[n])

\* An endSession that passed over the first entry, not eligible for the
\* spot, and served the second of three.
FirstComeFirstServedWitness ==
    /\ InFlight("A", "endSession")
    /\ Len(Base("A").queue) = 3
    /\ inv["A"].json.queue = <<Base("A").queue[1], Base("A").queue[3]>>
    /\ UserIdsOf(Base("A")) \cap {Base("A").queue[1].userId} # {}

(***************************************************************************)
(* Positions.                                                              *)
(***************************************************************************)
\* C20: in the stored document and in every document the engine computes,
\* the positions of the queue entries are positive integers, no two equal.
DistinctPositions ==
    \A json \in Documents :
        /\ \A k \in 1..Len(json.queue) : json.queue[k].position \in Nat \ {0}
        /\ \A k1, k2 \in 1..Len(json.queue) :
              json.queue[k1].position = json.queue[k2].position => k1 = k2

\* An addToQueue on a queue whose highest position is not in its last
\* entry: a moveQueue exchanged the positions before.
DistinctPositionsWitness ==
    /\ InFlight("A", "addToQueue")
    /\ Len(Base("A").queue) = 2
    /\ Base("A").queue[1].position > Base("A").queue[2].position
    /\ Len(inv["A"].json.queue) = 3

====
